---- MODULE Spec2Model ----
(***************************************************************************)
(* fel-cli: construction of the command from the command line              *)
(* (src/config.rs) and its dispatch against the FEL device (src/main.rs).  *)
(*                                                                         *)
(* The 32-bit address space is scaled to WordBits bits: every u32 of the   *)
(* program is a value in 0..U32_MAX with U32_MAX = 2^WordBits - 1, and     *)
(* u32 arithmetic overflows at that width.  Rust integer overflow panics   *)
(* when the build has overflow checks (debug) and wraps when it has not    *)
(* (release); overflow_checks says which build runs.                       *)
(***************************************************************************)
EXTENDS Integers, Sequences, FiniteSets, TLC

VARIABLES cli, fs, overflow_checks, pc, built, config, result, fel, device, devlog, i,
          output, uboot, dump

vars == <<cli, fs, overflow_checks, pc, built, config, result, fel, device, devlog, i,
          output, uboot, dump>>

(* ------------------------------ bounds -------------------------------- *)

\* Width of the scaled u32 (32 in the program).
WordBits == 3

\* HEX_DUMP_LINE, the bytes of one line of hex_dump, scaled with the address
\* space (0x10 in the program).
HEX_DUMP_LINE == 2

\* Largest number of (address, value) pairs of one write subcommand.
MaxWrites == 3

(* ------------------------------ integers ------------------------------ *)

RECURSIVE Pow2(_)
Pow2(n) == IF n = 0 THEN 1 ELSE 2 * Pow2(n - 1)

\* u32::MAX, scaled.
U32_MAX == Pow2(WordBits) - 1

U32 == 0 .. U32_MAX

\* A token that from_str_radix rejects.
NaN == 0 - 1

\* Option::None of a numeric field.
None == 0 - 2

\* What u32::from_str_radix makes of an argument: Ok(v) or Err.
U32Token == U32 \cup {NaN}

\* The bytes used for fill_byte (u8), and a token u8::from_str_radix rejects.
FillBytes == {0, 165}

FillByteToken == FillBytes \cup {NaN}

\* The word written by an inline write.
Words == {U32_MAX - 2}

\* Input files named on the command line.
Paths == {"a.bin", "missing.bin"}

\* Lengths of an input file (u64): up to one more than the whole space.
FileLens == 0 .. (U32_MAX + 2)

(* ------------------------- u32::MAX - addr + 1 ------------------------ *)

\* TRUE iff `u32::MAX - addr + 1` overflows the u32.
max_size_overflows(addr) == (U32_MAX - addr) + 1 > U32_MAX

\* The value of `u32::MAX - addr + 1` in wrapping u32 arithmetic.
max_size_wrapped(addr) == ((U32_MAX - addr) + 1) % Pow2(WordBits)

\* The expression panics in a build with overflow checks.
max_size_panics(addr, oc) == oc /\ max_size_overflows(addr)

(* ------------------------------ commands ------------------------------ *)

NoItems == << >>

\* config::Command, every variant over the same fields.
Cmd(kind) ==
    [kind |-> kind, address |-> None, size |-> None, hex |-> FALSE, sid |-> FALSE,
     out |-> FALSE, addresses |-> NoItems, data |-> NoItems, num_bytes |-> None,
     fill_byte |-> None]

\* config::WriteData
Word(w) == [kind |-> "word", word |-> w, path |-> ""]

File(p) == [kind |-> "file", word |-> None, path |-> p]

\* Result<Option<Command>>: Ok, Err (with the place that raised it), or a panic.
\* `at` is the number of write pairs the loop had completed.
Ok(cmd) == [tag |-> "ok", err |-> "", cmd |-> cmd, at |-> Len(cmd.addresses)]

Err(e, n) == [tag |-> "err", err |-> e, cmd |-> Cmd("unset"), at |-> n]

Panic(n) == [tag |-> "panic", err |-> "overflow", cmd |-> Cmd("unset"), at |-> n]

(* ------------------- Config::get_device_from_cli ---------------------- *)

\* The -d/--device option: absent, a well-formed `bus:addr`, or malformed.
DeviceArgs == {"absent", "given", "malformed"}

\* Result<Option<(u8, u8)>>: Err for a malformed option, else whether one was given.
get_device_from_cli(c) ==
    IF c.device = "malformed" THEN [tag |-> "err", some |-> FALSE]
    ELSE [tag |-> "ok", some |-> (c.device = "given")]

(* ------------------- Config::get_command_from_cli --------------------- *)

\* The dump branch without the check of the size.
dump_size_unchecked(size, addr) == FALSE

\* The dump check with a limit one byte too high.
dump_size_too_big_lax(size, addr) == size > max_size_wrapped(addr) + 1

\* `size > u32::MAX - addr + 1` of the dump branch.
dump_size_too_big(size, addr) == size > max_size_wrapped(addr)

\* `num_bytes > u32::MAX - addr + 1` of the clear branch.
clear_size_too_big(num_bytes, addr) == num_bytes > max_size_wrapped(addr)

\* The word check with a strict comparison.
word_fits_strict(addr) == U32_MAX - 4 > addr

\* `u32::MAX - 4 >= addr` of the write branch.
word_fits(addr) == U32_MAX - 4 >= addr

\* The write branch without the check that the file exists.
path_exists_unchecked(files, p) == TRUE

\* `path.exists()` of the write branch.
path_exists(files, p) == files[p].exists

\* `metadata.len() > max_bytes`, max_bytes being `(u32::MAX - addr + 1) as u64`:
\* the sum is made in u32 and widened afterwards.
file_too_big(len, addr) == len > max_size_wrapped(addr)

\* The dump subcommand.
get_dump(c, oc) ==
    IF c.sid THEN Ok([Cmd("dump") EXCEPT !.sid = TRUE])
    ELSE IF c.addr = NaN THEN Err("addr_parse", 0)
    ELSE IF c.size = None
         THEN Ok([Cmd("dump") EXCEPT !.address = c.addr, !.hex = c.hex, !.out = c.out])
    ELSE IF c.size = NaN
         THEN IF max_size_panics(c.addr, oc) THEN Panic(0) ELSE Err("size_parse", 0)
    ELSE IF max_size_panics(c.addr, oc) THEN Panic(0)
    ELSE IF dump_size_too_big(c.size, c.addr) THEN Err("dump_size_range", 0)
    ELSE Ok([Cmd("dump") EXCEPT !.address = c.addr, !.size = c.size,
                                !.hex = c.hex, !.out = c.out])

\* The loop of the write subcommand from pair k on, with the vectors built so far.
RECURSIVE write_loop(_, _, _, _, _, _)
write_loop(pairs, files, oc, k, addresses, data) ==
    IF k > Len(pairs)
    THEN Ok([Cmd("write") EXCEPT !.addresses = addresses, !.data = data])
    ELSE LET addr == pairs[k].addr
             v == pairs[k].value
         IN  IF addr = NaN THEN Err("addr_parse", k - 1)
             ELSE IF v.int
                  THEN IF word_fits(addr)
                       THEN write_loop(pairs, files, oc, k + 1,
                                       Append(addresses, addr), Append(data, Word(v.word)))
                       ELSE Err("word_range", k - 1)
             ELSE IF path_exists(files, v.path)
                  THEN IF ~files[v.path].meta_ok THEN Err("metadata", k - 1)
                       ELSE IF max_size_panics(addr, oc) THEN Panic(k - 1)
                       ELSE IF file_too_big(files[v.path].len, addr)
                            THEN Err("file_too_big", k - 1)
                       ELSE write_loop(pairs, files, oc, k + 1,
                                       Append(addresses, addr), Append(data, File(v.path)))
             ELSE Err("file_not_exist", k - 1)

\* The write subcommand.
get_write(c, files, oc) == write_loop(c.write_data, files, oc, 1, NoItems, NoItems)

\* The exec and reset64 subcommands.
get_execute(c) ==
    IF c.addr = NaN THEN Err("addr_parse", 0)
    ELSE Ok([Cmd("execute") EXCEPT !.address = c.addr])

get_reset64(c) ==
    IF c.addr = NaN THEN Err("addr_parse", 0)
    ELSE Ok([Cmd("reset64") EXCEPT !.address = c.addr])

\* The clear subcommand.
get_clear(c, oc) ==
    IF c.addr = NaN THEN Err("addr_parse", 0)
    ELSE IF c.num_bytes = NaN
         THEN IF max_size_panics(c.addr, oc) THEN Panic(0) ELSE Err("num_bytes_parse", 0)
    ELSE IF max_size_panics(c.addr, oc) THEN Panic(0)
    ELSE IF clear_size_too_big(c.num_bytes, c.addr) THEN Err("clear_size_range", 0)
    ELSE Ok([Cmd("clear") EXCEPT !.address = c.addr, !.num_bytes = c.num_bytes])

\* The fill subcommand: num_bytes is parsed and never compared with the space left.
get_fill(c, oc) ==
    IF c.addr = NaN THEN Err("addr_parse", 0)
    ELSE IF c.num_bytes = NaN
         THEN IF max_size_panics(c.addr, oc) THEN Panic(0) ELSE Err("num_bytes_parse", 0)
    ELSE IF c.fill_byte = NaN THEN Err("fill_byte_parse", 0)
    ELSE Ok([Cmd("fill") EXCEPT !.address = c.addr, !.num_bytes = c.num_bytes,
                                !.fill_byte = c.fill_byte])

\* A command line without subcommand taken for the version subcommand.
get_command_from_cli_default(c, files, oc) ==
    CASE c.sub = "dump"    -> get_dump(c, oc)
      [] c.sub = "write"   -> get_write(c, files, oc)
      [] c.sub = "exec"    -> get_execute(c)
      [] c.sub = "reset64" -> get_reset64(c)
      [] c.sub = "clear"   -> get_clear(c, oc)
      [] c.sub = "fill"    -> get_fill(c, oc)
      [] OTHER             -> Ok(Cmd("version"))

\* Result<Option<Command>> of the command line; Ok(None) is the command "none".
get_command_from_cli(c, files, oc) ==
    CASE c.sub = "dump"    -> get_dump(c, oc)
      [] c.sub = "write"   -> get_write(c, files, oc)
      [] c.sub = "exec"    -> get_execute(c)
      [] c.sub = "reset64" -> get_reset64(c)
      [] c.sub = "version" -> Ok(Cmd("version"))
      [] c.sub = "clear"   -> get_clear(c, oc)
      [] c.sub = "fill"    -> get_fill(c, oc)
      [] OTHER             -> Ok(Cmd("none"))

\* Config::from_cli: the device option first, then the command; `?` returns the
\* first error.
from_cli(c, files, oc) ==
    LET d == get_device_from_cli(c)
    IN  IF d.tag = "err"
        THEN [tag |-> "err", err |-> "device_arg", at |-> 0,
              config |-> [device |-> FALSE, command |-> Cmd("unset")]]
        ELSE LET r == get_command_from_cli(c, files, oc)
             IN  [tag |-> r.tag, err |-> r.err, at |-> r.at,
                  config |-> [device |-> d.some, command |-> r.cmd]]

(* ------------------------------ inputs -------------------------------- *)

\* A command line over the same fields for every subcommand.
Cli(sub, dev) ==
    [sub |-> sub, device |-> dev, sid |-> FALSE, addr |-> 0, size |-> None,
     hex |-> FALSE, out |-> FALSE, write_data |-> NoItems, num_bytes |-> 0,
     fill_byte |-> 0]

\* The value token of a write pair: an integer, or anything else (a path).
IntValue(w) == [int |-> TRUE, word |-> w, path |-> ""]

PathValue(p) == [int |-> FALSE, word |-> None, path |-> p]

Values == {IntValue(w) : w \in Words} \cup {PathValue(p) : p \in Paths}

\* Pairs of a write of one pair: every address; pairs of a longer write: the
\* two ends of the range a word can be written to.
SinglePairs == [addr : U32Token, value : Values]

MultiPairs == [addr : {0, U32_MAX - 4}, value : Values]

WriteData ==
    {<<p>> : p \in SinglePairs}
    \cup UNION {[1 .. n -> MultiPairs] : n \in 2 .. MaxWrites}

DumpClis(dev) ==
    {[Cli("dump", dev) EXCEPT !.sid = TRUE]}
    \cup {[Cli("dump", dev) EXCEPT !.addr = a, !.size = s, !.hex = h, !.out = o] :
            a \in U32Token, s \in U32Token \cup {None}, h \in BOOLEAN, o \in BOOLEAN}

WriteClis(dev) == {[Cli("write", dev) EXCEPT !.write_data = w] : w \in WriteData}

AddrClis(sub, dev) == {[Cli(sub, dev) EXCEPT !.addr = a] : a \in U32Token}

ClearClis(dev) ==
    {[Cli("clear", dev) EXCEPT !.addr = a, !.num_bytes = n] :
        a \in U32Token, n \in U32Token}

FillClis(dev) ==
    {[Cli("fill", dev) EXCEPT !.addr = a, !.num_bytes = n, !.fill_byte = b] :
        a \in U32Token, n \in U32Token, b \in FillByteToken}

Clis ==
    UNION {DumpClis(dev) \cup WriteClis(dev) \cup AddrClis("exec", dev)
           \cup AddrClis("reset64", dev) \cup {Cli("version", dev)}
           \cup ClearClis(dev) \cup FillClis(dev) \cup {Cli("none", dev)} :
           dev \in DeviceArgs}

\* The files: missing.bin does not exist; a.bin exists.
FileState(e, m, l) == [exists |-> e, meta_ok |-> m, len |-> l]

DefaultFs == [p \in Paths |-> IF p = "a.bin" THEN FileState(TRUE, TRUE, 1)
                                             ELSE FileState(FALSE, FALSE, 0)]

\* Every length of a.bin, and an a.bin whose metadata cannot be read, for the
\* write of the single pair that names it; one short a.bin otherwise.
FsChoices(c) ==
    IF c.sub = "write" /\ Len(c.write_data) = 1 /\ c.write_data[1].value.path = "a.bin"
    THEN {[DefaultFs EXCEPT !["a.bin"] = FileState(TRUE, m, l)] :
             m \in BOOLEAN, l \in FileLens}
    ELSE {DefaultFs}

(* ------------------------------- state -------------------------------- *)

Running == [status |-> "running", err |-> "", at |-> 0]

Failed(e, n) == [status |-> "err", err |-> e, at |-> n]

\* One call on the device: fel_read, fel_write, read_words, write_words,
\* fel_execute, rmr_request, read_sid, get_version_info, fel_fill.
DevOp(op, addr, len, val) == [op |-> op, addr |-> addr, len |-> len, val |-> val]

\* What a sized dump read and where it went: the bytes fel_read returned, the
\* lines hex_dump printed, the output file (created or not, and its bytes) and
\* the bytes written to stdout.
NoDump ==
    [data |-> << >>, lines |-> << >>, created |-> FALSE, file |-> << >>,
     stdout |-> << >>]

\* The entry point the device returned for the stage-2 image, and the one reported.
NoUboot == [entry |-> None, reported |-> None]

Init ==
    /\ cli \in Clis
    /\ fs \in FsChoices(cli)
    /\ overflow_checks \in BOOLEAN
    /\ pc = "from_cli"
    /\ built = [tag |-> "unset", err |-> "", at |-> 0]
    /\ uboot = NoUboot
    /\ config = [device |-> FALSE, command |-> Cmd("unset")]
    /\ result = Running
    /\ fel = FALSE
    /\ device = FALSE
    /\ devlog = << >>
    /\ i = 1
    /\ output = << >>
    /\ dump = NoDump

(* -------------------------------- run --------------------------------- *)

\* run going on to the device after an error of Config::from_cli.
after_from_cli_unchecked(tag) == "fel_new"

\* `Config::from_cli(..)?`: an error returns from run before anything else.
after_from_cli(tag) == IF tag = "ok" THEN "fel_new" ELSE "exit"

FromCli ==
    /\ pc = "from_cli"
    /\ LET r == from_cli(cli, fs, overflow_checks)
       IN  /\ config' = r.config
           /\ built' = [tag |-> r.tag, err |-> r.err, at |-> r.at]
           /\ result' = IF r.tag = "ok" THEN Running
                        ELSE [status |-> r.tag, err |-> r.err, at |-> r.at]
           /\ pc' = after_from_cli(r.tag)
    /\ UNCHANGED <<cli, fs, overflow_checks, dump, uboot, fel, device, devlog, i, output>>

\* `Fel::new().chain_err(..)?`
FelNew ==
    /\ pc = "fel_new"
    /\ \E ok \in BOOLEAN :
         /\ fel' = ok
         /\ pc' = IF ok THEN "select" ELSE "exit"
         /\ result' = IF ok THEN result ELSE Failed("fel_init", 0)
    /\ UNCHANGED <<cli, fs, overflow_checks, dump, built, uboot, config, device, devlog, i, output>>

\* `fel.get_device(bus, addr)?`: an error, no such device, or the device.
GetDevice ==
    /\ pc = "select"
    /\ config.device
    /\ \E r \in {"err", "none", "some"} :
         /\ device' = (r = "some")
         /\ pc' = IF r = "some" THEN "dispatch" ELSE "exit"
         /\ result' = CASE r = "err"  -> Failed("get_device", 0)
                        [] r = "none" -> Failed("no_device_at", 0)
                        [] OTHER      -> result
    /\ UNCHANGED <<cli, fs, overflow_checks, dump, built, uboot, config, fel, devlog, i, output>>

\* `fel.list_devices()?`: an error, an empty list, or the first device of it.
ListDevices ==
    /\ pc = "select"
    /\ ~config.device
    /\ \E r \in {"err", "empty", "some"} :
         /\ device' = (r = "some")
         /\ pc' = IF r = "some" THEN "dispatch" ELSE "exit"
         /\ result' = CASE r = "err"   -> Failed("list_devices", 0)
                        [] r = "empty" -> Failed("no_devices", 0)
                        [] OTHER       -> result
    /\ UNCHANGED <<cli, fs, overflow_checks, dump, built, uboot, config, fel, devlog, i, output>>

(* ----------------------------- dispatch ------------------------------ *)

Done == [status |-> "ok", err |-> "", at |-> 0]

cmd == config.command

\* The arm of `match *cmd` that runs.
Arm(kind) == pc = "dispatch" /\ cmd.kind = kind

\* A single device call op; `?` on its error e, else the line `line` is printed.
Call(op, ok, e, line) ==
    /\ devlog' = Append(devlog, op)
    /\ pc' = IF ok THEN "done" ELSE "exit"
    /\ result' = IF ok THEN Done ELSE Failed(e, 0)
    /\ output' = IF ok THEN Append(output, line) ELSE output
    /\ UNCHANGED <<cli, fs, overflow_checks, dump, built, uboot, config, fel, device, i>>

\* Dump { sid: true }: read_sid fails, finds no SID registers, or returns them.
DumpSid ==
    /\ Arm("dump")
    /\ cmd.sid
    /\ \E r \in {"err", "none", "some"} :
         /\ devlog' = Append(devlog, DevOp("read_sid", None, None, None))
         /\ pc' = IF r = "some" THEN "done" ELSE "exit"
         /\ result' = CASE r = "err"  -> Failed("read_sid", 0)
                        [] r = "none" -> Failed("no_sid", 0)
                        [] OTHER      -> Done
         /\ output' = IF r = "some" THEN Append(output, "sid") ELSE output
    /\ UNCHANGED <<cli, fs, overflow_checks, dump, built, uboot, config, fel, device, i>>

(* ------------------------------ hex_dump ------------------------------ *)

\* Bytes a device may return, around the ends of the printable range.
ByteSamples == <<0, 31, 32, 65, 126, 127, 255>>

Seeds == 0 .. (Len(ByteSamples) - 1)

\* A buffer of n bytes: the samples in turn, from the seed on.
Buffer(n, seed) == [k \in 1 .. n |-> ByteSamples[((k + seed) % Len(ByteSamples)) + 1]]

\* The character '.', and the digit code that stands for '_'.
Dot == 46

Underscore == 16

\* format!("{:02x} ", byte): the two hexadecimal digits of the byte.
hex_pair(byte) == <<byte \div 16, byte % 16>>

\* "__ "
placeholder == <<Underscore, Underscore>>

\* The ASCII column taking 0x7F for a printable character.
ascii_char_del(byte) == IF byte >= 32 /\ byte <= 127 THEN byte ELSE Dot

\* char::from(byte) for a byte from 0x20 to 0x7E, '.' for any other.
ascii_char(byte) == IF byte >= 32 /\ byte <= 126 THEN byte ELSE Dot

\* Chunk number i (from 0) of data.chunks(HEX_DUMP_LINE).
chunk(data, n) ==
    SubSeq(data, n * HEX_DUMP_LINE + 1,
           IF (n + 1) * HEX_DUMP_LINE < Len(data) THEN (n + 1) * HEX_DUMP_LINE
           ELSE Len(data))

\* `offset + (i * HEX_DUMP_LINE) as u32`: the cast keeps the low bits, the sum
\* is a u32 sum.
line_offset(n) == (n * HEX_DUMP_LINE) % Pow2(WordBits)

start_address_overflows(offset, n) == offset + line_offset(n) > U32_MAX

start_address(offset, n) == (offset + line_offset(n)) % Pow2(WordBits)

\* One printed line: the address, HEX_DUMP_LINE pairs and HEX_DUMP_LINE characters,
\* the missing bytes of a short chunk as "__" and '.'.
hex_line(c, start) ==
    [addr |-> start,
     bytes |-> [k \in 1 .. HEX_DUMP_LINE |->
                  IF k <= Len(c) THEN hex_pair(c[k]) ELSE placeholder],
     ascii |-> [k \in 1 .. HEX_DUMP_LINE |->
                  IF k <= Len(c) THEN ascii_char(c[k]) ELSE Dot]]

\* hex_dump from chunk n on: the lines printed, and whether the sum of a start
\* address panicked (a build with overflow checks), which ends the printing.
RECURSIVE hex_dump_from(_, _, _, _)
hex_dump_from(data, offset, oc, n) ==
    IF n * HEX_DUMP_LINE >= Len(data) THEN [lines |-> << >>, panic |-> FALSE]
    ELSE IF oc /\ start_address_overflows(offset, n)
         THEN [lines |-> << >>, panic |-> TRUE]
    ELSE LET rest == hex_dump_from(data, offset, oc, n + 1)
         IN  [lines |-> <<hex_line(chunk(data, n), start_address(offset, n))>>
                        \o rest.lines,
              panic |-> rest.panic]

hex_dump(data, offset, oc) == hex_dump_from(data, offset, oc, 0)

(* ----------------------------- Dump arm ------------------------------- *)

\* The routing with the output file taking precedence over hex.
dump_sink_out_first(hex, out) == IF out THEN "file" ELSE IF hex THEN "hex" ELSE "stdout"

\* Where the bytes of a sized dump go.
dump_sink(hex, out) == IF hex THEN "hex" ELSE IF out THEN "file" ELSE "stdout"

\* What can happen at the sink.  The file: File::create fails, write_all fails,
\* the bytes stay in the BufWriter and its flush on drop fails unreported, or
\* the bytes are written.  stdout: write_all fails or not.
SinkOutcomes(sink) ==
    CASE sink = "file"   -> {"create_file", "write_file", "lost", "ok"}
      [] sink = "stdout" -> {"write_stdout", "ok"}
      [] OTHER           -> {"ok"}

\* A single-word dump that reads four bytes with fel_read when hex is asked for.
dump_read_op_hex(c) ==
    IF c.size # None THEN DevOp("fel_read", c.address, c.size, None)
    ELSE IF c.hex THEN DevOp("fel_read", c.address, 4, None)
    ELSE DevOp("read_words", c.address, 1, None)

\* The device read of a Dump without sid: fel_read of size bytes into
\* vec![0u8; size], or read_words into [0u32].
dump_read_op(c) ==
    IF c.size # None THEN DevOp("fel_read", c.address, c.size, None)
    ELSE DevOp("read_words", c.address, 1, None)

\* Dump { size: Some(_) }: fel_read, then hex_dump, the output file or stdout.
DumpSize ==
    /\ Arm("dump")
    /\ ~cmd.sid
    /\ cmd.size # None
    /\ devlog' = Append(devlog, dump_read_op(cmd))
    /\ \/ /\ pc' = "exit"
          /\ result' = Failed("fel_read", 0)
          /\ UNCHANGED <<dump, output>>
       \/ \E seed \in Seeds :
            LET sink == dump_sink(cmd.hex, cmd.out)
                data == Buffer(cmd.size, seed)
                h == hex_dump(data, cmd.address, overflow_checks)
            IN  \E r \in SinkOutcomes(sink) :
                  /\ dump' =
                       CASE sink = "hex" -> [dump EXCEPT !.data = data, !.lines = h.lines]
                         [] sink = "file" ->
                              [dump EXCEPT !.data = data,
                                           !.created = (r # "create_file"),
                                           !.file = IF r = "ok" THEN data ELSE << >>]
                         [] OTHER ->
                              [dump EXCEPT !.data = data,
                                           !.stdout = IF r = "ok" THEN data ELSE << >>]
                  /\ result' = IF sink = "hex" /\ h.panic
                               THEN [status |-> "panic", err |-> "overflow", at |-> 0]
                               ELSE IF r \in {"ok", "lost"} THEN Done
                               ELSE Failed(r, 0)
                  /\ pc' = IF result'.status = "ok" THEN "done" ELSE "exit"
                  /\ output' = IF result'.status = "ok" THEN Append(output, sink)
                               ELSE output
    /\ UNCHANGED <<cli, fs, overflow_checks, built, uboot, config, fel, device, i>>

\* Dump { size: None }: one word, printed.
DumpWord ==
    /\ Arm("dump")
    /\ ~cmd.sid
    /\ cmd.size = None
    /\ \E ok \in BOOLEAN : Call(dump_read_op(cmd), ok, "read_words", "word")

\* The loop of the Write arm going on after the failure of an item.
after_write_item_continue(ok, k, n) ==
    IF k = n THEN IF ok THEN "done" ELSE "exit" ELSE "dispatch"

\* for (addr, data) in addresses.iter().zip(data): `?` leaves the loop and run.
after_write_item(ok, k, n) ==
    IF ~ok THEN "exit" ELSE IF k = n THEN "done" ELSE "dispatch"

\* WriteData::Word(w): write_words(addr, &[w]).
WriteWord ==
    /\ Arm("write")
    /\ cmd.data[i].kind = "word"
    /\ \E ok \in BOOLEAN :
         /\ devlog' = Append(devlog,
                             DevOp("write_words", cmd.addresses[i], 1, cmd.data[i].word))
         /\ pc' = after_write_item(ok, i, Len(cmd.addresses))
         /\ result' = IF ~ok THEN Failed("write_words", i - 1)
                      ELSE IF i = Len(cmd.addresses) THEN Done ELSE result
         /\ output' = IF ok THEN Append(output, "wrote_word") ELSE output
         /\ i' = IF ok THEN i + 1 ELSE i
    /\ UNCHANGED <<cli, fs, overflow_checks, dump, built, uboot, config, fel, device>>

\* WriteData::File(path): File::open, read_to_end, then fel_write(addr, &data).
\* Opening or reading the file can fail, and then nothing is written.
WriteFile ==
    /\ Arm("write")
    /\ cmd.data[i].kind = "file"
    /\ \E r \in {"open_file", "read_file", "fel_write", "ok"} :
         LET ok == r = "ok"
             called == r \in {"fel_write", "ok"}
         IN  /\ devlog' = IF called
                          THEN Append(devlog,
                                      DevOp("fel_write", cmd.addresses[i],
                                            fs[cmd.data[i].path].len, None))
                          ELSE devlog
             /\ pc' = after_write_item(ok, i, Len(cmd.addresses))
             /\ result' = IF ~ok THEN Failed(r, i - 1)
                          ELSE IF i = Len(cmd.addresses) THEN Done ELSE result
             /\ output' = IF ok THEN Append(output, "wrote_file") ELSE output
             /\ i' = IF ok THEN i + 1 ELSE i
    /\ UNCHANGED <<cli, fs, overflow_checks, dump, built, uboot, config, fel, device>>

Execute ==
    /\ Arm("execute")
    /\ \E ok \in BOOLEAN :
         /\ devlog' = Append(devlog, DevOp("fel_execute", cmd.address, None, None))
         /\ pc' = IF ok THEN "done" ELSE "exit"
         /\ result' = IF ok THEN Done ELSE Failed("fel_execute", 0)
         /\ UNCHANGED <<cli, fs, overflow_checks, dump, built, uboot, config, fel, device, i,
                        output>>

Reset64 ==
    /\ Arm("reset64")
    /\ \E ok \in BOOLEAN :
         Call(DevOp("rmr_request", cmd.address, None, 1), ok, "rmr_request", "reset_sent")

\* get_version_info returns no Result.
Version ==
    /\ Arm("version")
    /\ Call(DevOp("get_version_info", None, None, None), TRUE, "", "version")

\* The call of Command::Clear and of Command::Fill.
clear_op(c) == DevOp("fel_fill", c.address, c.num_bytes, 0)

fill_op(c) == DevOp("fel_fill", c.address, c.num_bytes, c.fill_byte)

Clear ==
    /\ Arm("clear")
    /\ \E ok \in BOOLEAN : Call(clear_op(cmd), ok, "fel_fill", "cleared")

Fill ==
    /\ Arm("fill")
    /\ \E ok \in BOOLEAN : Call(fill_op(cmd), ok, "fel_fill", "filled")

\* config.get_command() is None: a warning, and Ok(()).
NoCommand ==
    /\ Arm("none")
    /\ pc' = "done"
    /\ result' = Done
    /\ output' = Append(output, "warning")
    /\ UNCHANGED <<cli, fs, overflow_checks, dump, built, uboot, config, fel, device, devlog, i>>

Next ==
    \/ FromCli
    \/ FelNew
    \/ GetDevice
    \/ ListDevices
    \/ DumpSid
    \/ DumpSize
    \/ DumpWord
    \/ WriteWord
    \/ WriteFile
    \/ Execute
    \/ Reset64
    \/ Version
    \/ Clear
    \/ Fill
    \/ NoCommand

Spec == Init /\ [][Next]_vars

(* ------------------------ the Uboot command --------------------------- *)
(* The sources at hand have no Uboot variant of Command and no arm for it: *)
(* this part follows the specification (sections 4.1, 4.2 and 6).  The     *)
(* image and the start flag are the fields image_len and start of uboot.   *)

\* STAGE1_LEN_LIMIT, the size of the first-stage loader region, scaled.
STAGE1_LEN_LIMIT == 2

ImageLens == 0 .. (STAGE1_LEN_LIMIT + 2)

\* The entry points writeStage2Image may return.
EntryPoints == {1, U32_MAX}

\* BuildUboot: with start, the image must be longer than the stage-1 limit.
build_uboot(len, start) ==
    IF start /\ ~(len > STAGE1_LEN_LIMIT) THEN Err("invalid_image", 0)
    ELSE Ok(Cmd("uboot"))

\* The leading bytes written as the stage-1 loader.
stage1_len(len) == IF len > STAGE1_LEN_LIMIT THEN STAGE1_LEN_LIMIT ELSE len

\* A stage-2 test that misses the image one byte longer than the limit.
has_stage2_lax(len) == len > STAGE1_LEN_LIMIT + 1

\* The image has bytes left for a stage-2 image.
has_stage2(len) == len > STAGE1_LEN_LIMIT

InitUboot ==
    /\ cli \in {Cli("uboot", dev) : dev \in DeviceArgs}
    /\ fs = DefaultFs
    /\ overflow_checks \in BOOLEAN
    /\ pc = "from_cli"
    /\ built = [tag |-> "unset", err |-> "", at |-> 0]
    /\ uboot \in [image_len : ImageLens, start : BOOLEAN, entry : {None},
                  reported : {None}]
    /\ config = [device |-> FALSE, command |-> Cmd("unset")]
    /\ result = Running
    /\ fel = FALSE
    /\ device = FALSE
    /\ devlog = << >>
    /\ i = 1
    /\ output = << >>
    /\ dump = NoDump

\* The construction of the Uboot command, after the device option.
BuildUboot ==
    /\ pc = "from_cli"
    /\ LET d == get_device_from_cli(cli)
           r == IF d.tag = "err" THEN Err("device_arg", 0)
                ELSE build_uboot(uboot.image_len, uboot.start)
       IN  /\ config' = [device |-> d.some, command |-> r.cmd]
           /\ built' = [tag |-> r.tag, err |-> r.err, at |-> r.at]
           /\ result' = IF r.tag = "ok" THEN Running ELSE Failed(r.err, 0)
           /\ pc' = after_from_cli(r.tag)
    /\ UNCHANGED <<cli, fs, overflow_checks, dump, uboot, fel, device, devlog, i, output>>

\* writeAndExecuteStage1: one call that writes the loader and starts it.
UbootStage1 ==
    /\ Arm("uboot")
    /\ i = 1
    /\ \E ok \in BOOLEAN :
         /\ devlog' = Append(devlog, DevOp("write_and_execute_stage1", None,
                                           stage1_len(uboot.image_len), None))
         /\ pc' = IF ~ok THEN "exit"
                  ELSE IF has_stage2(uboot.image_len) THEN "dispatch" ELSE "done"
         /\ result' = IF ~ok THEN Failed("stage1", 0)
                      ELSE IF has_stage2(uboot.image_len) THEN result ELSE Done
         /\ i' = IF ok THEN 2 ELSE i
    /\ UNCHANGED <<cli, fs, overflow_checks, dump, built, uboot, config, fel, device, output>>

\* writeStage2Image of the remaining bytes: the device returns the entry point,
\* which is reported when no start was asked for.
UbootStage2 ==
    /\ Arm("uboot")
    /\ i = 2
    /\ \E ok \in BOOLEAN, entry \in EntryPoints :
         /\ devlog' = Append(devlog, DevOp("write_stage2", None,
                                           uboot.image_len - STAGE1_LEN_LIMIT, None))
         /\ pc' = IF ~ok THEN "exit" ELSE IF uboot.start THEN "dispatch" ELSE "done"
         /\ result' = IF ~ok THEN Failed("stage2", 0)
                      ELSE IF uboot.start THEN result ELSE Done
         /\ uboot' = IF ~ok THEN uboot
                     ELSE [uboot EXCEPT !.entry = entry,
                                        !.reported = IF uboot.start THEN None ELSE entry]
         /\ output' = IF ok /\ ~uboot.start THEN Append(output, "entry_point") ELSE output
         /\ i' = IF ok THEN 3 ELSE i
    /\ UNCHANGED <<cli, fs, overflow_checks, dump, built, config, fel, device>>

\* execute at the entry point of the stage-2 image.
UbootExecute ==
    /\ Arm("uboot")
    /\ i = 3
    /\ \E ok \in BOOLEAN :
         /\ devlog' = Append(devlog, DevOp("fel_execute", uboot.entry, None, None))
         /\ pc' = IF ok THEN "done" ELSE "exit"
         /\ result' = IF ok THEN Done ELSE Failed("fel_execute", 0)
         /\ i' = IF ok THEN 4 ELSE i
    /\ UNCHANGED <<cli, fs, overflow_checks, dump, built, uboot, config, fel, device, output>>

NextUboot ==
    \/ BuildUboot
    \/ FelNew
    \/ GetDevice
    \/ ListDevices
    \/ UbootStage1
    \/ UbootStage2
    \/ UbootExecute

SpecUboot == InitUboot /\ [][NextUboot]_vars

(* ------------------------------ claims -------------------------------- *)

\* The error kinds of the specification among the errors of the code.
IsRangeError(e) == e \in {"dump_size_range", "clear_size_range", "word_range", "file_too_big"}

IsNotFound(e) == e = "file_not_exist"

\* Config::from_cli has returned, and the device option did not fail first.
Constructed == pc # "from_cli" /\ cli.device # "malformed"

ConstructionFailed == built.tag \in {"err", "panic"}

\* Pair k of the write was reached by the loop; pair k was pushed on the vectors.
Examined(k) == built.tag = "ok" \/ built.at >= k - 1

Pushed(k) == built.tag = "ok" \/ built.at >= k

Terminated == pc \in {"done", "exit"}

\* C1: a dump by size, and a clear, whose address + size - 1 is beyond
\* MAX_ADDRESS fails with a range error and yields no Command.
C1_OutOfRangeRejected ==
    (Constructed /\ cli.addr \in U32) =>
        /\ (cli.sub = "dump" /\ ~cli.sid /\ cli.size \in U32
              /\ cli.addr + cli.size - 1 > U32_MAX)
            => (built.tag = "err" /\ built.err = "dump_size_range" /\ cmd.kind = "unset")
        /\ (cli.sub = "clear" /\ cli.num_bytes \in U32
              /\ cli.addr + cli.num_bytes - 1 > U32_MAX)
            => (built.tag = "err" /\ built.err = "clear_size_range" /\ cmd.kind = "unset")

C1_Witness ==
    /\ Constructed
    /\ cli.sub = "dump"
    /\ cli.addr = U32_MAX
    /\ cli.size = 2
    /\ built.err = "dump_size_range"
    /\ pc = "exit"

\* C2: a dump by size, and a clear, whose size is at most (MAX_ADDRESS - address) + 1
\* is constructed, address 0 and the whole space included, and the computation of
\* the maximum size never overflows the integer width.
C2_InRangeAccepted ==
    (Constructed /\ cli.addr \in U32) =>
        /\ (cli.sub = "dump" /\ ~cli.sid /\ cli.size \in U32
              /\ cli.size <= (U32_MAX - cli.addr) + 1)
            => (built.tag = "ok" /\ cmd.kind = "dump" /\ cmd.address = cli.addr
                /\ cmd.size = cli.size /\ ~max_size_overflows(cli.addr))
        /\ (cli.sub = "clear" /\ cli.num_bytes \in U32
              /\ cli.num_bytes <= (U32_MAX - cli.addr) + 1)
            => (built.tag = "ok" /\ cmd.kind = "clear" /\ cmd.address = cli.addr
                /\ cmd.num_bytes = cli.num_bytes /\ ~max_size_overflows(cli.addr))

\* C3: a fill whose address + num_bytes - 1 is beyond MAX_ADDRESS fails with a
\* range error, as the clear of the same address and num_bytes does.
C3_FillOutOfRangeRejected ==
    (Constructed /\ cli.sub = "fill" /\ cli.addr \in U32 /\ cli.num_bytes \in U32
       /\ cli.fill_byte \in FillBytes /\ cli.addr + cli.num_bytes - 1 > U32_MAX)
    => (built.tag = "err" /\ IsRangeError(built.err) /\ cmd.kind = "unset")

\* C4: a write pair whose value is an integer fails with a range error when its
\* address is above MAX_ADDRESS - 4, and yields a Word at any address up to it.
C4_WordRange ==
    (Constructed /\ cli.sub = "write") =>
        \A k \in 1 .. Len(cli.write_data) :
            LET p == cli.write_data[k]
            IN  (p.value.int /\ p.addr \in U32 /\ Examined(k)) =>
                    IF p.addr > U32_MAX - 4
                    THEN built.tag = "err" /\ built.err = "word_range" /\ built.at = k - 1
                    ELSE /\ Pushed(k)
                         /\ built.tag = "ok" =>
                              /\ cmd.addresses[k] = p.addr
                              /\ cmd.data[k] = Word(p.value.word)

C4_Witness ==
    /\ Constructed
    /\ cli.sub = "write"
    /\ Len(cli.write_data) = 1
    /\ cli.write_data[1].value.int
    /\ cli.write_data[1].addr = U32_MAX - 4
    /\ built.tag = "ok"
    /\ cmd.data[1].kind = "word"

\* C5: a write pair whose value is not an integer names a file: not-found when
\* the file does not exist, a range error exactly when its length exceeds
\* (MAX_ADDRESS - address) + 1, and a File item with the path otherwise.
C5_FileRange ==
    (Constructed /\ cli.sub = "write") =>
        \A k \in 1 .. Len(cli.write_data) :
            LET p == cli.write_data[k]
                f == fs[p.value.path]
            IN  (~p.value.int /\ p.addr \in U32 /\ Examined(k)) =>
                    IF ~f.exists
                    THEN built.tag = "err" /\ IsNotFound(built.err) /\ built.at = k - 1
                    ELSE f.meta_ok =>
                           IF f.len > (U32_MAX - p.addr) + 1
                           THEN built.tag = "err" /\ built.err = "file_too_big"
                                /\ built.at = k - 1
                           ELSE /\ Pushed(k)
                                /\ built.tag = "ok" =>
                                     /\ cmd.addresses[k] = p.addr
                                     /\ cmd.data[k] = File(p.value.path)

\* C6: when the construction of the command fails, the tool is never
\* initialised, no device is selected and no call is made on a device.
C6_NoDeviceAfterFailedConstruction ==
    ConstructionFailed => (~fel /\ ~device /\ devlog = << >> /\ pc = "exit")

C6_Witness ==
    /\ built.tag = "err"
    /\ built.err = "file_not_exist"
    /\ pc = "exit"
    /\ ~fel

\* The write of C7: a word that fits, then a file that does not exist.
C7_Case ==
    /\ cli.device # "malformed"
    /\ cli.sub = "write"
    /\ Len(cli.write_data) >= 2
    /\ cli.write_data[1].value.int
    /\ cli.write_data[1].addr \in U32
    /\ cli.write_data[1].addr <= U32_MAX - 4
    /\ ~cli.write_data[2].value.int
    /\ cli.write_data[2].addr \in U32
    /\ ~fs[cli.write_data[2].value.path].exists

\* C7 as stated: the run writes the word on the device and then fails with
\* not-found on the second item.
C7_WordWrittenThenNotFound ==
    (C7_Case /\ Terminated) =>
        /\ devlog = <<DevOp("write_words", cli.write_data[1].addr, 1,
                            cli.write_data[1].value.word)>>
        /\ result.status = "err"
        /\ IsNotFound(result.err)

\* C7 amended: the construction of the command fails with not-found at the second
\* pair, having pushed one pair and read none after the second; the word is never
\* written, and no device is selected.
C7_NotFoundBeforeAnyWrite ==
    (C7_Case /\ pc # "from_cli") =>
        /\ built.tag = "err"
        /\ IsNotFound(built.err)
        /\ built.at = 1
        /\ result.status = "err"
        /\ IsNotFound(result.err)
        /\ pc = "exit"
        /\ ~device
        /\ devlog = << >>

C7_Witness ==
    /\ C7_Case
    /\ Len(cli.write_data) = 3
    /\ pc = "exit"
    /\ built.err = "file_not_exist"
    /\ built.at = 1

\* The device call of item k of the Write command.
ItemOp(k) ==
    IF cmd.data[k].kind = "word"
    THEN DevOp("write_words", cmd.addresses[k], 1, cmd.data[k].word)
    ELSE DevOp("fel_write", cmd.addresses[k], fs[cmd.data[k].path].len, None)

IsPrefix(s, t) == Len(s) <= Len(t) /\ SubSeq(t, 1, Len(s)) = s

C8_State ==
    cmd.kind = "write" =>
        /\ Len(devlog) <= Len(cmd.addresses)
        /\ \A k \in 1 .. Len(devlog) : devlog[k] = ItemOp(k)
        /\ pc = "dispatch" => Len(devlog) = i - 1
        /\ pc = "done" => Len(devlog) = Len(cmd.addresses)
        /\ (pc = "exit" /\ device) =>
              /\ result.status = "err"
              /\ Len(devlog) \in {result.at, result.at + 1}
              /\ Len(devlog) = result.at + 1 => result.err \in {"write_words", "fel_write"}

C8_Step ==
    cmd.kind = "write" =>
        /\ IsPrefix(devlog, devlog')
        /\ Len(devlog') <= Len(devlog) + 1
        /\ Terminated => devlog' = devlog

\* C8: the device writes of a Write command are those of its items, in order
\* and at most one each; the first failure ends the run, no later item is
\* attempted, none is retried and the writes made stay made.
C8_WriteInOrderFailFast == [](C8_State) /\ [][C8_Step]_vars

C8_Witness ==
    /\ cmd.kind = "write"
    /\ Len(cmd.addresses) = 3
    /\ pc = "exit"
    /\ result.err = "open_file"
    /\ result.at = 1
    /\ Len(devlog) = 1
    /\ devlog[1].op = "write_words"

\* C9: a Fill ends in exactly one fel_fill with its three arguments and no other
\* device call, and the Clear of the same address and length is built and
\* dispatched to the same device call as the Fill with byte 0x00.
C9_FillOnceClearIsFillZero ==
    (cli.sub = "fill" /\ Terminated /\ device) =>
        /\ devlog = <<DevOp("fel_fill", cli.addr, cli.num_bytes, cli.fill_byte)>>
        /\ cli.fill_byte = 0 =>
             LET c == get_command_from_cli([cli EXCEPT !.sub = "clear"], fs,
                                           overflow_checks)
             IN  c.tag = "ok" /\ devlog = <<clear_op(c.cmd)>>

\* The number of calls of op in the device log.
CountOp(op) == Cardinality({k \in 1 .. Len(devlog) : devlog[k].op = op})

\* C10: a Uboot command of an image longer than the stage-1 limit makes one
\* stage-1 write-and-execute call and then one stage-2 write; without start no
\* execute follows and the entry point reported is the one the stage-2 write
\* returned; with start one execute at that entry point follows.
C10_UbootSequence ==
    (cmd.kind = "uboot" /\ uboot.image_len > STAGE1_LEN_LIMIT) =>
        /\ CountOp("write_and_execute_stage1") <= 1
        /\ CountOp("write_stage2") <= 1
        /\ CountOp("fel_execute") <= 1
        /\ pc = "done" =>
             /\ Len(devlog) >= 2
             /\ devlog[1] = DevOp("write_and_execute_stage1", None, STAGE1_LEN_LIMIT, None)
             /\ devlog[2] = DevOp("write_stage2", None,
                                  uboot.image_len - STAGE1_LEN_LIMIT, None)
             /\ uboot.entry \in EntryPoints
             /\ ~uboot.start => (Len(devlog) = 2 /\ uboot.reported = uboot.entry)
             /\ uboot.start =>
                  (Len(devlog) = 3 /\ devlog[3] = DevOp("fel_execute", uboot.entry, None, None))

C10_Witness ==
    /\ cmd.kind = "uboot"
    /\ uboot.image_len = STAGE1_LEN_LIMIT + 1
    /\ ~uboot.start
    /\ pc = "done"
    /\ uboot.reported = U32_MAX

\* A Dump by size, and one whose fel_read has returned the bytes.
SizedDump == cmd.kind = "dump" /\ ~cmd.sid /\ cmd.size # None

SizedDumpRead == SizedDump /\ Terminated /\ device /\ result.err # "fel_read"

\* The number of lines of n bytes.
LinesOf(n) == (n + HEX_DUMP_LINE - 1) \div HEX_DUMP_LINE

\* C11: hex_dump of n bytes at offset o prints ceil(n / HEX_DUMP_LINE) lines;
\* line j (from 0) is labelled o + HEX_DUMP_LINE * j, shows the bytes of its
\* chunk as two hexadecimal digits each and, in the ASCII column, the character
\* of a byte from 0x20 to 0x7E and '.' for any other; the last line is padded to
\* HEX_DUMP_LINE positions with "__" and '.'.
C11_HexDumpLines ==
    (SizedDumpRead /\ cmd.hex /\ result.status = "ok") =>
        LET n == Len(dump.data)
        IN  /\ n = cmd.size
            /\ Len(dump.lines) = LinesOf(n)
            /\ \A j \in 1 .. Len(dump.lines) :
                 LET line == dump.lines[j]
                     first == (j - 1) * HEX_DUMP_LINE
                     real == IF first + HEX_DUMP_LINE <= n THEN HEX_DUMP_LINE
                             ELSE n - first
                 IN  /\ line.addr = cmd.address + first
                     /\ real >= 1
                     /\ Len(line.bytes) = HEX_DUMP_LINE
                     /\ Len(line.ascii) = HEX_DUMP_LINE
                     /\ \A k \in 1 .. HEX_DUMP_LINE :
                          IF k <= real
                          THEN LET b == dump.data[first + k]
                               IN  /\ line.bytes[k] = <<b \div 16, b % 16>>
                                   /\ line.ascii[k] =
                                        IF b \in 32 .. 126 THEN b ELSE 46
                          ELSE /\ line.bytes[k] = <<Underscore, Underscore>>
                               /\ line.ascii[k] = 46

C11_Witness ==
    /\ SizedDumpRead
    /\ cmd.hex
    /\ pc = "done"
    /\ Len(dump.data) = HEX_DUMP_LINE + 1
    /\ Len(dump.lines) = 2
    /\ dump.lines[2].addr = cmd.address + HEX_DUMP_LINE
    /\ dump.lines[1].bytes[HEX_DUMP_LINE] # placeholder
    /\ dump.lines[2].bytes[1] = <<7, 15>>
    /\ dump.lines[2].ascii[1] = Dot
    /\ dump.lines[2].bytes[HEX_DUMP_LINE] = placeholder
    /\ dump.lines[1].ascii[1] = 65

\* The device call a Dump is to make, from the arguments of the command line.
DumpCall ==
    IF cli.sid THEN DevOp("read_sid", None, None, None)
    ELSE IF cli.size # None THEN DevOp("fel_read", cli.addr, cli.size, None)
    ELSE DevOp("read_words", cli.addr, 1, None)

\* C12: a Dump makes exactly one device read: the SID query alone with sid (a
\* device without SID registers ends the run with an error), else one read of
\* size bytes at the address, else one read of one word at the address,
\* whatever hex and out are.
C12_DumpOneRead ==
    cmd.kind = "dump" =>
        /\ Len(devlog) <= 1
        /\ pc = "dispatch" => devlog = << >>
        /\ (Terminated /\ device) =>
              /\ devlog = <<DumpCall>>
              /\ result.status \in {"ok", "err"}
              /\ (cmd.sid /\ result.status = "ok") => output = <<"sid">>
              /\ (~cmd.sid /\ cmd.size = None /\ result.status = "ok") => output = <<"word">>

C12_Witness ==
    /\ cmd.kind = "dump"
    /\ cmd.size = None
    /\ cmd.hex
    /\ cmd.out
    /\ pc = "done"
    /\ devlog = <<DevOp("read_words", cli.addr, 1, None)>>

\* The sinks of a sized dump that received something or were created.
Touched ==
    (IF dump.lines # << >> THEN {"hex"} ELSE {})
    \cup (IF dump.created \/ dump.file # << >> THEN {"file"} ELSE {})
    \cup (IF dump.stdout # << >> THEN {"stdout"} ELSE {})

\* The sink the flags select: hex, else the output file, else stdout.
Selected == IF cli.hex THEN "hex" ELSE IF cli.out THEN "file" ELSE "stdout"

\* C13: the bytes of a sized dump go to exactly one of hex_dump, the output file
\* and stdout, for every hex and out, and when fel_read fails nothing is printed
\* or written and no output file is created.
C13_OneSink ==
    SizedDump =>
        /\ Touched \subseteq {Selected}
        /\ (Terminated /\ device /\ result.err = "fel_read") =>
              (dump = NoDump /\ output = << >> /\ result.status = "err")
        /\ pc = "dispatch" => (dump = NoDump /\ output = << >>)
        /\ pc = "done" =>
              /\ output = <<Selected>>
              /\ Len(dump.data) = cmd.size
              /\ Selected = "hex" => Len(dump.lines) = LinesOf(cmd.size)
              /\ Selected = "file" => (dump.created /\ dump.file \in {dump.data, << >>})
              /\ Selected = "stdout" => dump.stdout = dump.data

C13_Witness ==
    /\ SizedDump
    /\ cmd.hex
    /\ cmd.out
    /\ cmd.size > 0
    /\ pc = "done"
    /\ output = <<"hex">>
    /\ Touched = {"hex"}

\* C14: for a Dump that was constructed and is printed by hex_dump, no start
\* address offset + HEX_DUMP_LINE * j overflows the u32: each is at most
\* MAX_ADDRESS and the address printed is the address of the first byte of the line.
C14_LineAddressInRange ==
    (SizedDump /\ cmd.hex) =>
        /\ \A n \in 0 .. LinesOf(cmd.size) - 1 :
             /\ ~start_address_overflows(cmd.address, n)
             /\ cmd.address + n * HEX_DUMP_LINE <= U32_MAX
        /\ result.status # "panic"
        /\ \A j \in 1 .. Len(dump.lines) :
             /\ dump.lines[j].addr <= U32_MAX
             /\ dump.lines[j].addr = cmd.address + (j - 1) * HEX_DUMP_LINE

C14_Witness ==
    /\ SizedDumpRead
    /\ cmd.hex
    /\ pc = "done"
    /\ cmd.address + cmd.size - 1 = U32_MAX
    /\ Len(dump.lines) >= 2
    /\ dump.lines[Len(dump.lines)].addr = U32_MAX - (HEX_DUMP_LINE - 1)

\* C15: without a subcommand the run still selects a device, and fails when the
\* tool, the device asked for or any device is not found; after a selection it
\* makes no call on the device and returns Ok.
C15_NoCommandNoDeviceCall ==
    (cli.sub = "none" /\ Constructed) =>
        /\ built.tag = "ok"
        /\ cmd.kind = "none"
        /\ devlog = << >>
        /\ pc \in {"fel_new", "select", "dispatch", "done", "exit"}
        /\ pc = "dispatch" => (fel /\ device)
        /\ pc = "done" => (fel /\ device /\ result = Done /\ output = <<"warning">>)
        /\ pc = "exit" =>
              /\ ~device
              /\ result.status = "err"
              /\ result.err \in {"fel_init", "get_device", "no_device_at",
                                 "list_devices", "no_devices"}

C15_Witness ==
    /\ cli.sub = "none"
    /\ cli.device = "given"
    /\ pc = "done"
    /\ device
    /\ devlog = << >>
    /\ result = Done

====
